---------------------------- MODULE Spec2Model ----------------------------
(***************************************************************************)
(* MathCosmos: the shape generator (components/MathGenerators.ts) and the  *)
(* morph driver (the Particles component of components/Scene.tsx), with    *)
(* the application state that feeds them (App.tsx, UIOverlay.tsx).         *)
(*                                                                         *)
(* Numbers.  JavaScript numbers are modelled in fixed point: the integer n *)
(* stands for the real n / Scale, Scale = 2^15.  A Float32Array element is *)
(* a value of that grid; for the magnitudes the generator produces (below  *)
(* 64) the float32 grid is finer than 2^-18, so the model's grid is the    *)
(* coarser of the two.  Every arithmetic step rounds to the grid the way   *)
(* IEEE arithmetic rounds to its own (to nearest).  The transcendental     *)
(* functions of Math are computed by fixed-point approximations (the       *)
(* generator's coordinates come out within 0.03 of the program's), partial *)
(* where Math's are (acos outside [-1,1], a division by zero and the       *)
(* square root of a negative number give NaN).                             *)
(***************************************************************************)
EXTENDS Integers, Sequences, FiniteSets, TLC

(***************************************************************************)
(* Fixed-point arithmetic                                                  *)
(***************************************************************************)
Scale == 2^15
HalfScale == 2^14

\* The value a Float32Array slot holds after a NaN or an Infinity is stored.
NaN == -(2^30)

FromInt(n) == n * Scale

Abs(a) == IF a < 0 THEN -a ELSE a

Sgn(a) == IF a < 0 THEN -1 ELSE IF a > 0 THEN 1 ELSE 0

\* n / d for an integer n and a positive integer d, rounded to the nearest
\* integer, a tie away from zero.
RoundDiv(n, d) ==
    IF n >= 0 THEN (2 * n + d) \div (2 * d)
              ELSE -((2 * (-n) + d) \div (2 * d))

\* a * b of two non-negative fixed-point numbers, by halves so that no
\* intermediate product leaves 32 bits.
MulU(a, b) ==
    LET ah == a \div Scale
        al == a % Scale
        bh == b \div Scale
        bl == b % Scale
    IN  ah * bh * Scale + ah * bl + al * bh + (al * bl + HalfScale) \div Scale

Mul(a, b) == Sgn(a) * Sgn(b) * MulU(Abs(a), Abs(b))

\* a / b of a non-negative a and a positive b (b below 2^23), by long
\* division in two stages of 8 and 7 bits.
DivU(a, b) ==
    LET q0 == a \div b
        r1 == (a % b) * 2^8
        q1 == r1 \div b
        r2 == (r1 % b) * 2^7
        q2 == (2 * r2 + b) \div (2 * b)
    IN  q0 * Scale + q1 * 2^7 + q2

\* a / b; NaN (the model's one non-finite value) when b is zero.
Div(a, b) == IF b = 0 THEN NaN ELSE Sgn(a) * Sgn(b) * DivU(Abs(a), Abs(b))

\* n * a / d for a fixed-point a and a decimal constant n/d of the source
\* (0.05 is 1/20, 0.003 is 3/1000).
Frac(a, n, d) == RoundDiv(a * n, d)

RECURSIVE ISqrtB(_, _, _)
ISqrtB(n, lo, hi) ==
    IF lo >= hi THEN lo
    ELSE LET mid == (lo + hi + 1) \div 2
         IN  IF mid * mid <= n THEN ISqrtB(n, mid, hi) ELSE ISqrtB(n, lo, mid - 1)

\* The largest integer whose square is at most n (n below 2^31).
ISqrt(n) == ISqrtB(n, 0, 46340)

\* Math.sqrt: NaN below zero.
Sqrt(v) ==
    IF v < 0 THEN NaN
    ELSE IF v < 2^16 THEN ISqrt(v * 2^15)
    ELSE IF v < 2^20 THEN ISqrt(v * 2^11) * 2^2
    ELSE IF v < 2^24 THEN ISqrt(v * 2^7) * 2^4
    ELSE ISqrt(v * 2^1) * 2^7

RECURSIVE CbrtB(_, _, _)
\* The least r of lo..hi whose cube reaches v.
CbrtB(v, lo, hi) ==
    IF lo >= hi THEN lo
    ELSE LET mid == (lo + hi) \div 2
         IN  IF MulU(MulU(mid, mid), mid) >= v
             THEN CbrtB(v, lo, mid) ELSE CbrtB(v, mid + 1, hi)

\* Math.cbrt on [0, 1].
Cbrt(v) == CbrtB(v, 0, Scale)

RECURSIVE Pow(_, _)
\* Math.pow with a small non-negative integer exponent.
Pow(b, n) == IF n = 0 THEN Scale ELSE Mul(b, Pow(b, n - 1))

PiFx == 102944
TwoPiFx == 205887
HalfPiFx == 51472

\* sin on [0, pi] (Bhaskara's rational approximation, error below 0.002).
SinHalf(y) ==
    LET p == MulU(y, PiFx - y)
    IN  DivU(16 * p, 5 * MulU(PiFx, PiFx) - 4 * p)

\* Math.sin
Sin(x) ==
    LET y == x % TwoPiFx
    IN  IF y <= PiFx THEN SinHalf(y) ELSE -SinHalf(y - PiFx)

\* Math.cos
Cos(x) == Sin(x + HalfPiFx)

\* acos on [0, 1]: sqrt(1 - x) * (a0 + a1 x + a2 x^2 + a3 x^3)
\* (Abramowitz and Stegun 4.4.45).
AcosPos(x) ==
    LET poly == 51470 + Mul(x, -6951 + Mul(x, 2433 + Mul(x, -614)))
    IN  Mul(Sqrt(Scale - x), poly)

\* Math.acos: NaN outside [-1, 1].
Acos(x) ==
    IF x < -Scale \/ x > Scale THEN NaN
    ELSE IF x >= 0 THEN AcosPos(x) ELSE PiFx - AcosPos(-x)

\* e^z for 0 <= z: the Taylor polynomial of degree 5 at z/4, to the fourth
\* power.
ExpPos(z) ==
    LET w == z \div 4
        w2 == Mul(w, w)
        w3 == Mul(w2, w)
        w4 == Mul(w3, w)
        w5 == Mul(w4, w)
        e == Scale + w + w2 \div 2 + w3 \div 6 + w4 \div 24 + w5 \div 120
        e2 == Mul(e, e)
    IN  Mul(e2, e2)

\* Math.exp
Exp(x) == IF x >= 0 THEN ExpPos(x) ELSE DivU(Scale, ExpPos(-x))

(***************************************************************************)
(* types: ShapeType and THEMES                                             *)
(***************************************************************************)
ShapeType ==
    [ Sierpinski  |-> "Sierpinski Triangle",
      Mobius      |-> "Mobius Strip",
      Heart       |-> "Cartesian Heart",
      Penrose     |-> "Penrose Structure",
      Lorenz      |-> "Lorenz Attractor",
      Galaxy      |-> "Spiral Galaxy",
      DNA         |-> "DNA Double Helix",
      Sphere      |-> "Fibonacci Sphere",
      Klein       |-> "Klein Bottle",
      Trefoil     |-> "Trefoil Knot",
      Rossler     |-> "Rossler Attractor",
      Clifford    |-> "Clifford Torus",
      Hourglass   |-> "Spacetime Hourglass",
      Warp        |-> "Warp Tunnel",
      Quantum     |-> "Quantum Cloud",
      Flower      |-> "Exotic Flower",
      BlackHole   |-> "Black Hole Accretion",
      Lissajous   |-> "Lissajous Curve",
      GravityWave |-> "Gravity Wave",
      Hypercube   |-> "Hypercube Projection" ]

\* Object.values(ShapeType)
shapeKeys == { ShapeType[k] : k \in DOMAIN ShapeType }

\* The names of THEMES, in order; THEMES[0] is the first.
THEMES == << "Deep Space", "Nebula", "Sci-Fi", "Matrix", "Ethereal" >>

(***************************************************************************)
(* The random source.  Math.random() returns a number of [0, 1); a run of  *)
(* the program sees some sequence of them.  A stream is a finite sequence  *)
(* of such numbers, read cyclically: draw number c (from 0) of stream rnd  *)
(* is rnd[(c % Len(rnd)) + 1].                                             *)
(***************************************************************************)
MathRandom(rnd, c) == rnd[(c % Len(rnd)) + 1]

\* const random = (min, max) => Math.random() * (max - min) + min, on the
\* draw r.
random(min, max, r) == Mul(r, max - min) + min

(***************************************************************************)
(* generateParticles: the per-index formulas.  Each takes the index i, the *)
(* count, the stream and the number c of draws made so far, and gives the  *)
(* point and the number n of draws it made.                                *)
(***************************************************************************)
Pt(x, y, z, n) == [x |-> x, y |-> y, z |-> z, n |-> n]

\* const t = i / count
TParam(i, count) == Div(FromInt(i), FromInt(count))

\* v, or NaN when the operand a it was computed from is NaN.
Strict(a, v) == IF a = NaN THEN NaN ELSE v

Sphere(i, count, rnd, c) ==
    LET t     == TParam(i, count)
        phi   == Acos(Scale - 2 * t)
        theta == 333133 * i
        r     == 10
    IN  Pt(Strict(phi, r * Mul(Sin(phi), Cos(theta))),
           Strict(phi, r * Mul(Sin(phi), Sin(theta))),
           Strict(phi, r * Cos(phi)),
           0)

corners ==
    << [x |-> FromInt(10),  y |-> FromInt(10),  z |-> FromInt(10)],
       [x |-> FromInt(-10), y |-> FromInt(-10), z |-> FromInt(10)],
       [x |-> FromInt(-10), y |-> FromInt(10),  z |-> FromInt(-10)],
       [x |-> FromInt(10),  y |-> FromInt(-10), z |-> FromInt(-10)] >>

\* lerp with half the alpha it is given.
lerpHalfAlpha(p, v, n, d) ==
    [x |-> p.x + Frac(v.x - p.x, n, 2 * d),
     y |-> p.y + Frac(v.y - p.y, n, 2 * d),
     z |-> p.z + Frac(v.z - p.z, n, 2 * d)]

\* THREE.Vector3.lerp(v, alpha) with alpha = n/d: this += (v - this) * alpha
lerp(p, v, n, d) ==
    [x |-> p.x + Frac(v.x - p.x, n, d),
     y |-> p.y + Frac(v.y - p.y, n, d),
     z |-> p.z + Frac(v.z - p.z, n, d)]

\* Math.floor(Math.random() * 4) on the draw r
CornerIndex(r) == (r * 4) \div Scale

ChaosIterations == 5

RECURSIVE ChaosGame(_, _, _, _)
\* for (s = 0; s < 5; s++) p.lerp(corners[floor(random * 4)], 0.5), from step s
ChaosGame(p, s, rnd, c) ==
    IF s >= ChaosIterations THEN p
    ELSE ChaosGame(lerp(p, corners[CornerIndex(MathRandom(rnd, c)) + 1], 1, 2),
                   s + 1, rnd, c + 1)

Sierpinski(i, count, rnd, c) ==
    LET p0 == [x |-> random(FromInt(-10), FromInt(10), MathRandom(rnd, c)),
               y |-> random(FromInt(-10), FromInt(10), MathRandom(rnd, c + 1)),
               z |-> random(FromInt(-10), FromInt(10), MathRandom(rnd, c + 2))]
        p  == ChaosGame(p0, 0, rnd, c + 3)
    IN  Pt(p.x, p.y, p.z, 3 + ChaosIterations)

Mobius(i, count, rnd, c) ==
    LET t == TParam(i, count)
        u == 4 * Mul(t, PiFx)
        v == random(FromInt(-1), FromInt(1), MathRandom(rnd, c))
        r == FromInt(8) + Mul(v, Cos(u \div 2))
    IN  Pt(Mul(r, Cos(u)), Mul(r, Sin(u)), 4 * Mul(v, Sin(u \div 2)), 1)

Heart(i, count, rnd, c) ==
    LET phi   == random(0, TwoPiFx, MathRandom(rnd, c))
        theta == random(0, PiFx, MathRandom(rnd, c + 1))
        s3    == Pow(Sin(theta), 3)
    IN  Pt(Frac(Mul(160 * s3, Cos(phi)), 1, 10),
           Frac(10 * (13 * Cos(theta) - 5 * Cos(2 * theta)
                      - 2 * Cos(3 * theta) - Cos(4 * theta)), 1, 10),
           Frac(Mul(160 * s3, Sin(phi)), 1, 10),
           2)

\* One Euler step of the Lorenz system, sigma = 10, rho = 28, beta = 8/3,
\* step 0.003.
LorenzStep(s) ==
    LET dx == 10 * (s.y - s.x)
        dy == Mul(s.x, FromInt(28) - s.z) - s.y
        dz == Mul(s.x, s.y) - Frac(s.z, 8, 3)
    IN  [x |-> s.x + Frac(dx, 3, 1000),
         y |-> s.y + Frac(dy, 3, 1000),
         z |-> s.z + Frac(dz, 3, 1000)]

RECURSIVE LorenzRun(_, _)
\* for (k = 0; k < iter; k++): the state k steps after s.  The k steps are
\* taken as two runs of half the length, the first one's state computed
\* before the second starts, which keeps the evaluation shallow.
LorenzRun(s, k) ==
    IF k = 0 THEN s
    ELSE IF k = 1 THEN LorenzStep(s)
    ELSE LET m == LorenzRun(s, k \div 2)
         IN  IF m.x = NaN THEN m ELSE LorenzRun(m, k - k \div 2)

\* On i % 100 === 0 the three draws go to lx, ly, lz, which nothing reads: x,
\* y and z keep their initial 0.
Lorenz(i, count, rnd, c) ==
    IF i % 100 = 0 THEN Pt(0, 0, 0, 3)
    ELSE LET iter == 50 + (i % 2000)
             s == LorenzRun([x |-> Scale, y |-> Scale, z |-> Scale], iter)
         IN  Pt(s.x, s.y, s.z - FromInt(25), 0)

Galaxy(i, count, rnd, c) ==
    LET arms       == 5
        armAngle   == (i % arms) * (TwoPiFx \div arms)
        dist       == random(0, FromInt(15), MathRandom(rnd, c))
        angle      == dist \div 2 + armAngle
        randomness == random(FromInt(-1), FromInt(1), MathRandom(rnd, c + 1))
        w          == random(FromInt(-1), FromInt(1), MathRandom(rnd, c + 2))
    IN  Pt(Mul(Cos(angle), dist) + randomness,
           Mul(Sin(angle), dist) + randomness,
           Frac(Mul(w, dist), 1, 5),
           3)

DNA(i, count, rnd, c) ==
    LET t      == TParam(i, count)
        turns  == 10
        angle  == 2 * turns * Mul(t, PiFx)
        radius == 5
        height == 30
        strand == IF i % 2 = 0 THEN 1 ELSE -1
        y      == height * (t - HalfScale)
    IN  IF i % 10 = 0
        THEN LET r == random(FromInt(-radius), FromInt(radius), MathRandom(rnd, c))
             IN  Pt(Mul(Cos(angle), r), y, Mul(Sin(angle), r), 1)
        ELSE Pt(radius * Cos(angle + strand * PiFx), y,
                radius * Sin(angle + strand * PiFx), 0)

Klein(i, count, rnd, c) ==
    LET t == TParam(i, count)
        u == 2 * Mul(t, PiFx)
        v == Frac(TwoPiFx, i % 100, 100)
        r == 4 * (Scale - Cos(u) \div 2)
        b == 6 * Mul(Cos(u), Scale + Sin(u))
        x == IF u < PiFx THEN b + Mul(Mul(r, Cos(u)), Cos(v))
                         ELSE b + Mul(r, Cos(v + PiFx))
        y == IF u < PiFx THEN 16 * Sin(u) + Mul(Mul(r, Sin(u)), Cos(v))
                         ELSE 16 * Sin(u)
        z == Mul(r, Sin(v))
    IN  Pt(Frac(x, 3, 10), Frac(y, 3, 10), Frac(z, 3, 10), 0)

Trefoil(i, count, rnd, c) ==
    LET t  == TParam(i, count)
        u  == 4 * Mul(t, PiFx)
        kx == Sin(u) + 2 * Sin(2 * u)
        ky == Cos(u) - 2 * Cos(2 * u)
        kz == -Sin(3 * u)
    IN  Pt(kx * 4 + random(-HalfScale, HalfScale, MathRandom(rnd, c)),
           ky * 4 + random(-HalfScale, HalfScale, MathRandom(rnd, c + 1)),
           kz * 4 + random(-HalfScale, HalfScale, MathRandom(rnd, c + 2)),
           3)

\* One Euler step of the Rossler system, a = b = 0.2, c = 5.7, step 0.01.
RosslerStep(s) ==
    LET dx == -s.y - s.z
        dy == s.x + Frac(s.y, 1, 5)
        dz == Frac(Scale, 1, 5) + Mul(s.z, s.x - Frac(FromInt(57), 1, 10))
    IN  [x |-> s.x + Frac(dx, 1, 100),
         y |-> s.y + Frac(dy, 1, 100),
         z |-> s.z + Frac(dz, 1, 100)]

RECURSIVE RosslerRun(_, _)
\* for (k = 0; k < steps; k++): the state k steps after s.  The k steps are
\* taken as two runs of half the length, the first one's state computed
\* before the second starts, which keeps the evaluation shallow.
RosslerRun(s, k) ==
    IF k = 0 THEN s
    ELSE IF k = 1 THEN RosslerStep(s)
    ELSE LET m == RosslerRun(s, k \div 2)
         IN  IF m.x = NaN THEN m ELSE RosslerRun(m, k - k \div 2)

Rossler(i, count, rnd, c) ==
    LET steps == 100 + (i % 3000)
        s == RosslerRun([x |-> Scale, y |-> Scale, z |-> Scale], steps)
    IN  Pt(s.x, s.y, s.z - FromInt(10), 0)

Clifford(i, count, rnd, c) ==
    LET t  == TParam(i, count)
        u  == 2 * Mul(t, PiFx)
        v  == Frac(TwoPiFx, i % 200, 200)
        R  == 8
        r  == 3
        rr == FromInt(R) + r * Cos(v)
    IN  Pt(Mul(rr, Cos(u)), Mul(rr, Sin(u)), r * Sin(v), 0)

Hourglass(i, count, rnd, c) ==
    LET t == TParam(i, count)
        u == 4 * Mul(t, PiFx)
        h == 2 * Frac(Scale, i % 100, 100) - Scale
        r == 10 * Pow(h, 2) + Scale
    IN  Pt(Mul(r, Cos(u)), 15 * h, Mul(r, Sin(u)), 0)

Warp(i, count, rnd, c) ==
    LET t     == TParam(i, count)
        depth == (50 * t) % FromInt(50)
        angle == i * HalfScale
        r     == FromInt(5) + 2 * Sin(depth \div 2)
    IN  Pt(Mul(Cos(angle), r), Mul(Sin(angle), r), FromInt(25) - depth, 0)

Quantum(i, count, rnd, c) ==
    LET u       == random(0, Scale, MathRandom(rnd, c))
        v       == random(0, Scale, MathRandom(rnd, c + 1))
        theta   == Mul(TwoPiFx, u)
        phi     == Acos(2 * v - Scale)
        r       == 10 * Cbrt(random(0, Scale, MathRandom(rnd, c + 2)))
        orbital == 5 * Abs(Mul(Cos(theta), Sin(phi)))
    IN  Pt(Strict(phi, Mul(Mul(r + orbital, Sin(phi)), Cos(theta))),
           Strict(phi, Mul(Mul(r + orbital, Sin(phi)), Sin(theta))),
           Strict(phi, Mul(r + orbital, Cos(phi))),
           3)

Flower(i, count, rnd, c) ==
    LET t == TParam(i, count)
        u == 20 * Mul(t, PiFx)
        v == Frac(Scale, i % 50, 50)
        r == FromInt(5) + 5 * Cos(5 * u)
    IN  Pt(2 * Mul(Mul(r, Cos(u)), v),
           Mul(5 * Sin(5 * u), Scale - v),
           2 * Mul(Mul(r, Sin(u)), v),
           0)

\* BlackHole with dist = random(0, 15), the inner radius left out.
BlackHoleNoInnerRadius(i, count, rnd, c) ==
    LET t     == TParam(i, count)
        dist  == random(0, FromInt(15), MathRandom(rnd, c))
        q     == Div(FromInt(10), dist)
        angle == 20 * Mul(t, PiFx) + q
        w     == random(FromInt(-1), FromInt(1), MathRandom(rnd, c + 1))
        y0    == Div(w \div 2, dist \div 2)
        y     == IF dist < FromInt(4) THEN 2 * y0 ELSE y0
    IN  Pt(Strict(q, Mul(Cos(angle), dist)),
           Strict(y0, y),
           Strict(q, Mul(Sin(angle), dist)),
           2)

BlackHole(i, count, rnd, c) ==
    LET t     == TParam(i, count)
        dist  == FromInt(3) + random(0, FromInt(15), MathRandom(rnd, c))
        q     == Div(FromInt(10), dist)
        angle == 20 * Mul(t, PiFx) + q
        w     == random(FromInt(-1), FromInt(1), MathRandom(rnd, c + 1))
        y0    == Div(w \div 2, dist \div 2)
        y     == IF dist < FromInt(4) THEN 2 * y0 ELSE y0
    IN  Pt(Strict(q, Mul(Cos(angle), dist)),
           Strict(y0, y),
           Strict(q, Mul(Sin(angle), dist)),
           2)

\* Lissajous with a phase drawn from the random source.
LissajousRandomPhase(i, count, rnd, c) ==
    LET t     == TParam(i, count)
        delta == random(0, HalfPiFx, MathRandom(rnd, c))
        angle == 20 * Mul(t, PiFx)
    IN  Pt(10 * Sin(3 * angle + delta), 10 * Sin(2 * angle), 10 * Sin(4 * angle), 1)

Lissajous(i, count, rnd, c) ==
    LET t     == TParam(i, count)
        A     == 10
        a     == 3
        b     == 2
        cc    == 4
        delta == HalfPiFx
        angle == 20 * Mul(t, PiFx)
    IN  Pt(A * Sin(a * angle + delta), A * Sin(b * angle), A * Sin(cc * angle), 0)

GravityWave(i, count, rnd, c) ==
    LET size == 30
        x == random(FromInt(-size), FromInt(size), MathRandom(rnd, c))
        z == random(FromInt(-size), FromInt(size), MathRandom(rnd, c + 1))
        d == Sqrt(Mul(x, x) + Mul(z, z))
    IN  Pt(x,
           Strict(d, Mul(5 * Sin(d \div 2), Exp(-Frac(d, 1, 20)))),
           z,
           2)

\* random(-1,1) > 0 ? a : -a on the draw r
Side(r, a) == IF random(FromInt(-1), FromInt(1), r) > 0 THEN a ELSE -a

Hypercube(i, count, rnd, c) ==
    LET size == FromInt(10)
        a    == IF 2 * i < count THEN size \div 2 ELSE size
        fill == MathRandom(rnd, c + 3) > Frac(Scale, 8, 10)
    IN  Pt(IF fill THEN random(-size, size, MathRandom(rnd, c + 4))
                   ELSE Side(MathRandom(rnd, c), a),
           Side(MathRandom(rnd, c + 1), a),
           Side(MathRandom(rnd, c + 2), a),
           IF fill THEN 5 ELSE 4)

Penrose(i, count, rnd, c) ==
    LET part == i % 3
        pos  == random(FromInt(-10), FromInt(10), MathRandom(rnd, c))
        up   == pos + FromInt(10)
        h    == -FromInt(10) + Mul(up, 28378)
        x    == IF part = 0 THEN (IF Abs(pos) > FromInt(10) THEN 0 ELSE pos)
                ELSE IF part = 1 THEN FromInt(10) - up \div 2
                ELSE -FromInt(10) + up \div 2
        y    == IF part = 0 THEN -FromInt(10) ELSE h
        z    == IF part = 0 THEN 0
                ELSE IF part = 1 THEN up \div 2 ELSE -(up \div 2)
    IN  Pt(Frac(x, 8, 10), Frac(y, 8, 10), Frac(z, 8, 10), 1)

\* The default fill with the half-width of GravityWave.
DefaultFillWide(i, count, rnd, c) ==
    Pt(random(FromInt(-30), FromInt(30), MathRandom(rnd, c)),
       random(FromInt(-30), FromInt(30), MathRandom(rnd, c + 1)),
       random(FromInt(-30), FromInt(30), MathRandom(rnd, c + 2)),
       3)

\* default: x = random(-10, 10); y = random(-10, 10); z = random(-10, 10)
DefaultFill(i, count, rnd, c) ==
    Pt(random(FromInt(-10), FromInt(10), MathRandom(rnd, c)),
       random(FromInt(-10), FromInt(10), MathRandom(rnd, c + 1)),
       random(FromInt(-10), FromInt(10), MathRandom(rnd, c + 2)),
       3)

\* switch (shape)
GenPoint(shape, i, count, rnd, c) ==
    CASE shape = ShapeType.Sphere      -> Sphere(i, count, rnd, c)
      [] shape = ShapeType.Sierpinski  -> Sierpinski(i, count, rnd, c)
      [] shape = ShapeType.Mobius      -> Mobius(i, count, rnd, c)
      [] shape = ShapeType.Heart       -> Heart(i, count, rnd, c)
      [] shape = ShapeType.Lorenz      -> Lorenz(i, count, rnd, c)
      [] shape = ShapeType.Galaxy      -> Galaxy(i, count, rnd, c)
      [] shape = ShapeType.DNA         -> DNA(i, count, rnd, c)
      [] shape = ShapeType.Klein       -> Klein(i, count, rnd, c)
      [] shape = ShapeType.Trefoil     -> Trefoil(i, count, rnd, c)
      [] shape = ShapeType.Rossler     -> Rossler(i, count, rnd, c)
      [] shape = ShapeType.Clifford    -> Clifford(i, count, rnd, c)
      [] shape = ShapeType.Hourglass   -> Hourglass(i, count, rnd, c)
      [] shape = ShapeType.Warp        -> Warp(i, count, rnd, c)
      [] shape = ShapeType.Quantum     -> Quantum(i, count, rnd, c)
      [] shape = ShapeType.Flower      -> Flower(i, count, rnd, c)
      [] shape = ShapeType.BlackHole   -> BlackHole(i, count, rnd, c)
      [] shape = ShapeType.Lissajous   -> Lissajous(i, count, rnd, c)
      [] shape = ShapeType.GravityWave -> GravityWave(i, count, rnd, c)
      [] shape = ShapeType.Hypercube   -> Hypercube(i, count, rnd, c)
      [] shape = ShapeType.Penrose     -> Penrose(i, count, rnd, c)
      [] OTHER                         -> DefaultFill(i, count, rnd, c)


(***************************************************************************)
(* generateParticles: the buffer and the loop over the indices             *)
(***************************************************************************)
\* count * 3
BufferLength(count) == count * 3

\* new Float32Array(n): n zeros
NewFloat32Array(n) == [k \in 1..n |-> 0]

\* The spacing of float32 at the magnitude a (in grid units), from 2^24 up.
Ulp(a) ==
    IF a < 2^25 THEN 2^1 ELSE IF a < 2^26 THEN 2^2 ELSE IF a < 2^27 THEN 2^3
    ELSE IF a < 2^28 THEN 2^4 ELSE IF a < 2^29 THEN 2^5 ELSE IF a < 2^30 THEN 2^6
    ELSE 2^7

\* The store of a number into a Float32Array slot: 24 significant bits, to
\* nearest, a tie to even.  Below 2^24 grid units every grid value is a
\* float32.
Float32(v) ==
    IF v = NaN THEN NaN
    ELSE LET a == Abs(v) IN
         IF a < 2^24 THEN v
         ELSE LET u == Ulp(a)
                  q == a \div u
                  r == a % u
                  up == 2 * r > u \/ (2 * r = u /\ q % 2 = 1)
              IN  Sgn(v) * u * (IF up THEN q + 1 ELSE q)

\* The loop's state: the index i, the number c of draws made, the buffer,
\* and (a record of the run, not program state) the slots stored so far.
\* Slot k of the program's array is element k + 1 of the sequence.
GenLoopInit(count) ==
    [i |-> 0, c |-> 0, positions |-> NewFloat32Array(BufferLength(count)),
     stored |-> {}]

\* positions[idx] = x; positions[idx + 1] = y; positions[idx + 2] = z, for
\* the point p of index st.i.
GenStore(st, p) ==
    LET idx == st.i * 3
    IN  [i |-> st.i + 1,
         c |-> st.c + p.n,
         positions |-> [st.positions EXCEPT ![idx + 1] = Float32(p.x),
                                            ![idx + 2] = Float32(p.y),
                                            ![idx + 3] = Float32(p.z)],
         stored |-> st.stored \cup {idx + 1, idx + 2, idx + 3}]

\* One iteration of for (let i = 0; i < count; i++): the switch, then the
\* three stores.
GenLoopBody(shape, count, rnd, st) ==
    GenStore(st, GenPoint(shape, st.i, count, rnd, st.c))

RECURSIVE GenLoop(_, _, _, _)
GenLoop(shape, count, rnd, st) ==
    IF st.i < count THEN GenLoop(shape, count, rnd, GenLoopBody(shape, count, rnd, st))
    ELSE st

\* generateParticles(shape, count), the random source giving the stream rnd.
generateParticles(shape, count, rnd) ==
    GenLoop(shape, count, rnd, GenLoopInit(count)).positions

(***************************************************************************)
(* Bounds and inputs of the model                                          *)
(***************************************************************************)
\* Scene.tsx sets PARTICLE_COUNT = 20000; the model runs the same code on a
\* smaller cloud.
PARTICLE_COUNT == 1

\* The frames and the effective shape changes a run of the model takes.
MaxFrames == 3
MaxShapeChanges == 1

\* The largest count the generator is called with on its own.
MaxCount == 3

\* The streams the random source produces in the model.  Draws of 0 and of
\* almost 1, one for each corner of the chaos game, one above 0.8, and two
\* streams that differ by 64 grid units (0.002) in the first draw only.  A
\* stream has nine draws, so that the points of a buffer get different ones.
Streams ==
    { << 0,     8192, 16384, 0,     8192,  16384, 24576, 32736, 4096 >>,
      << 64,    8192, 16384, 0,     8192,  16384, 24576, 32736, 4096 >>,
      << 32736, 0,    24576, 32736, 16384, 0,     8192,  16384, 28672 >> }

\* A shape identifier that is no member of the enumeration.
UnknownShape == "Unknown Shape"

\* The values the zoom slider (0..100) takes in the model.
ZoomLevels == {50, 100}

\* The names handleThemeChange is called with: a theme of the catalog and a
\* name that is not in it.
ThemeNames == { THEMES[2], "Unknown Theme" }

Null == << >>

VARIABLES
    currentShape,     \* appState.currentShape
    theme,            \* appState.theme.name
    zoom,             \* appState.zoom
    particleCount,    \* appState.particleCount
    positions,        \* Particles: positions, which is also the array of the
                      \* geometry's position attribute (the same object); Null
                      \* before the first effect
    targetPositions,  \* Particles: targetPositions
    needsUpdate,      \* whether the last frame set currentAttr.needsUpdate
    frames,           \* frames rendered (the clock)
    genCalls,         \* calls of generateParticles so far
    shapeChanges,     \* shape selections that changed currentShape
    oldTarget,        \* the target a shape change replaced, until the next
                      \* frame; Null otherwise (a record of the run)
    retargetTick,     \* whether the last frame was the first after a
                      \* replacement (a record of the run)
    call,             \* a call of generateParticles taken alone: its arguments
    loop,             \* ... its loop state
    result            \* ... the array it returned, Null before it returns

vars == << currentShape, theme, zoom, particleCount, positions, targetPositions,
           needsUpdate, frames, genCalls, shapeChanges, oldTarget, retargetTick,
           call, loop, result >>

appVars == << currentShape, theme, zoom, particleCount, positions,
              targetPositions, needsUpdate, frames, genCalls, shapeChanges,
              oldTarget, retargetTick >>

genVars == << call, loop, result >>

(***************************************************************************)
(* The generator alone: GenSpec                                            *)
(***************************************************************************)
NoCall == [shape |-> UnknownShape, count |-> 0, rnd |-> << 0 >>]

AppIdle ==
    /\ currentShape = ShapeType.Sierpinski
    /\ theme = THEMES[1]
    /\ zoom = 50
    /\ particleCount = 0
    /\ positions = Null
    /\ targetPositions = Null
    /\ needsUpdate = FALSE
    /\ frames = 0
    /\ genCalls = 0
    /\ shapeChanges = 0
    /\ oldTarget = Null
    /\ retargetTick = FALSE

GenInit ==
    /\ AppIdle
    /\ call \in [shape : shapeKeys \cup {UnknownShape}, count : 1..MaxCount,
                 rnd : Streams]
    /\ loop = GenLoopInit(call.count)
    /\ result = Null

\* One iteration of the loop.
GenIterate ==
    /\ result = Null
    /\ loop.i < call.count
    /\ loop' = GenLoopBody(call.shape, call.count, call.rnd, loop)
    /\ UNCHANGED << call, result >>
    /\ UNCHANGED appVars

\* return positions
GenReturn ==
    /\ result = Null
    /\ ~(loop.i < call.count)
    /\ result' = loop.positions
    /\ UNCHANGED << call, loop >>
    /\ UNCHANGED appVars

GenNext == GenIterate \/ GenReturn

GenSpec == GenInit /\ [][GenNext]_vars

(***************************************************************************)
(* The application: App state, the Particles effects, the frame loop       *)
(***************************************************************************)
\* The buffers generateParticles returns for PARTICLE_COUNT points, by shape
\* and stream (computed once).
Buffers ==
    [s \in shapeKeys, r \in Streams |-> generateParticles(s, PARTICLE_COUNT, r)]

Init ==
    /\ AppIdle
    /\ call = NoCall
    /\ loop = GenLoopInit(0)
    /\ result = Null

\* useEffect(() => { ... }, []): the first effect's state updates.
InitEffect(shape, rnd) ==
    LET initialPos == Buffers[shape, rnd]
    IN  [positions |-> initialPos, targetPositions |-> initialPos]

\* The shape effect generating one point more than the buffers hold.
ShapeEffectOtherCount(shape, rnd) ==
    generateParticles(shape, PARTICLE_COUNT + 1, rnd)

\* useEffect(() => { ... }, [currentShape]): the value it gives
\* setTargetPositions.
ShapeEffect(shape, rnd) == Buffers[shape, rnd]

\* The shape effect with no dependency array: it runs after every render.
ShapeEffectAlways(oldShape, newShape) == TRUE

\* Whether the effect with the dependencies [currentShape] runs after a
\* render that follows the first.
ShapeEffectRuns(oldShape, newShape) == oldShape # newShape

\* The first commit: both effects run, in order, and their state updates are
\* applied together (the second setTargetPositions wins).
Mount ==
    /\ positions = Null
    /\ \E r1 \in Streams, r2 \in Streams :
          LET first == InitEffect(currentShape, r1)
          IN  /\ positions' = first.positions
              /\ targetPositions' = ShapeEffect(currentShape, r2)
    /\ particleCount' = PARTICLE_COUNT
    /\ genCalls' = genCalls + 2
    /\ UNCHANGED << currentShape, theme, zoom, needsUpdate, frames, shapeChanges,
                    oldTarget, retargetTick >>
    /\ UNCHANGED genVars

\* The shape effect calling setPositions(newTarget) too.
ShapeEffectResets(pos, newTarget) == newTarget

\* positions after the shape effect, which calls setTargetPositions and not
\* setPositions.
ShapeEffectPositions(pos, newTarget) == pos

\* The points element rendered with a new, zeroed position array.
AttributeArrayFresh(pos) == NewFloat32Array(Len(pos))

\* The position array the geometry holds after the points element is
\* rendered again (array={positions}: the same object, with what the frames
\* wrote into it).
AttributeArray(pos) == pos

\* A render of App, Scene and Particles after setState, with the effects it
\* triggers.
Rerender(oldShape, newShape) ==
    IF ShapeEffectRuns(oldShape, newShape)
    THEN /\ \E r \in Streams : targetPositions' = ShapeEffect(newShape, r)
         /\ positions' = ShapeEffectPositions(AttributeArray(positions), targetPositions')
         /\ genCalls' = genCalls + 1
         /\ oldTarget' = targetPositions
         /\ retargetTick' = FALSE
    ELSE /\ positions' = AttributeArray(positions)
         /\ UNCHANGED << targetPositions, genCalls, oldTarget, retargetTick >>

\* handleShapeChange(shape)
HandleShapeChange(shape) ==
    /\ positions # Null
    /\ shape # currentShape => shapeChanges < MaxShapeChanges
    /\ currentShape' = shape
    /\ shapeChanges' = IF shape # currentShape THEN shapeChanges + 1 ELSE shapeChanges
    /\ Rerender(currentShape, shape)
    /\ UNCHANGED << theme, zoom, particleCount, needsUpdate, frames >>
    /\ UNCHANGED genVars

\* THEMES.find(t => t.name === themeName) || THEMES[0]
FindTheme(themeName) ==
    IF \E k \in 1..Len(THEMES) : THEMES[k] = themeName THEN themeName ELSE THEMES[1]

\* handleThemeChange(themeName)
HandleThemeChange(themeName) ==
    /\ positions # Null
    /\ theme' = FindTheme(themeName)
    /\ Rerender(currentShape, currentShape)
    /\ UNCHANGED << currentShape, zoom, particleCount, needsUpdate, frames,
                    shapeChanges >>
    /\ UNCHANGED genVars

\* handleZoom(e)
HandleZoom(z) ==
    /\ positions # Null
    /\ zoom' = z
    /\ Rerender(currentShape, currentShape)
    /\ UNCHANGED << currentShape, theme, particleCount, needsUpdate, frames,
                    shapeChanges >>
    /\ UNCHANGED genVars

\* Math.abs(diff) > 0.001.  0.001 lies between 32 and 33 grid units.
ExceedsEpsilon(diff) == Abs(diff) > Scale \div 1000

\* The lerp snapping a component within epsilon to its target.
LerpComponentSnap(cur, tgt) ==
    IF cur = NaN \/ tgt = NaN THEN cur
    ELSE LET diff == tgt - cur
         IN  IF ExceedsEpsilon(diff) THEN Float32(cur + Frac(diff, 1, 20)) ELSE tgt

\* The lerp with the sign of the step reversed.
LerpComponentAway(cur, tgt) ==
    IF cur = NaN \/ tgt = NaN THEN cur
    ELSE LET diff == tgt - cur
         IN  IF ExceedsEpsilon(diff) THEN Float32(cur - Frac(diff, 1, 20)) ELSE cur

\* The lerp with lerpFactor = 0.5.
LerpComponentHalf(cur, tgt) ==
    IF cur = NaN \/ tgt = NaN THEN cur
    ELSE LET diff == tgt - cur
         IN  IF ExceedsEpsilon(diff) THEN Float32(cur + Frac(diff, 1, 2)) ELSE cur

\* The lerp with lerpFactor = 1.5.
LerpComponentOvershoot(cur, tgt) ==
    IF cur = NaN \/ tgt = NaN THEN cur
    ELSE LET diff == tgt - cur
         IN  IF ExceedsEpsilon(diff) THEN Float32(cur + Frac(diff, 3, 2)) ELSE cur

\* One component of the lerp loop:
\*   const diff = targetPositions[i] - posArray[i];
\*   if (Math.abs(diff) > 0.001) posArray[i] += diff * lerpFactor;
\* (a comparison with NaN is false)
LerpComponent(cur, tgt) ==
    IF cur = NaN \/ tgt = NaN THEN cur
    ELSE LET diff == tgt - cur
         IN  IF ExceedsEpsilon(diff) THEN Float32(cur + Frac(diff, 1, 20)) ELSE cur

\* posArray after the loop for (i = 0; i < PARTICLE_COUNT * 3; i++).
LerpLoop(pos, tgt) ==
    [i \in 1..(PARTICLE_COUNT * 3) |-> LerpComponent(pos[i], tgt[i])]

\* The frame flagging the attribute whatever the loop did.
AlwaysNeedsUpdate(pos, tgt) == TRUE

\* The local needsUpdate after the loop.
LerpNeedsUpdate(pos, tgt) ==
    \E i \in 1..(PARTICLE_COUNT * 3) :
        pos[i] # NaN /\ tgt[i] # NaN /\ ExceedsEpsilon(tgt[i] - pos[i])

\* The body of the useFrame callback.
FrameBody ==
    IF positions = Null \/ targetPositions = Null
    THEN UNCHANGED << positions, needsUpdate >>
    ELSE /\ positions' = LerpLoop(positions, targetPositions)
         /\ needsUpdate' = LerpNeedsUpdate(positions, targetPositions)

\* One frame: the useFrame callback.
Frame ==
    /\ frames < MaxFrames
    /\ frames' = frames + 1
    /\ FrameBody
    /\ oldTarget' = Null
    /\ retargetTick' = (oldTarget # Null)
    /\ UNCHANGED << currentShape, theme, zoom, particleCount, targetPositions,
                    genCalls, shapeChanges >>
    /\ UNCHANGED genVars

Next ==
    \/ Mount
    \/ \E shape \in shapeKeys : HandleShapeChange(shape)
    \/ \E themeName \in ThemeNames : HandleThemeChange(themeName)
    \/ \E z \in ZoomLevels : HandleZoom(z)
    \/ Frame

Spec == Init /\ [][Next]_vars

(***************************************************************************)
(* The morph alone: current starts as a buffer A, target is a buffer B,    *)
(* and frames follow one another (one per display refresh) with no other   *)
(* event.                                                                  *)
(***************************************************************************)
ConvergeInit ==
    /\ \E a \in shapeKeys, b \in shapeKeys, r1 \in Streams, r2 \in Streams :
          /\ positions = Buffers[a, r1]
          /\ targetPositions = Buffers[b, r2]
          /\ currentShape = b
    /\ theme = THEMES[1]
    /\ zoom = 50
    /\ particleCount = PARTICLE_COUNT
    /\ needsUpdate = FALSE
    /\ frames = 0
    /\ genCalls = 0
    /\ shapeChanges = 0
    /\ oldTarget = Null
    /\ retargetTick = FALSE
    /\ call = NoCall
    /\ loop = GenLoopInit(0)
    /\ result = Null

\* A frame, the clock left out.
ConvergeFrame ==
    /\ FrameBody
    /\ UNCHANGED << currentShape, theme, zoom, particleCount, targetPositions,
                    frames, genCalls, shapeChanges, oldTarget, retargetTick >>
    /\ UNCHANGED genVars

ConvergeSpec == ConvergeInit /\ [][ConvergeFrame]_vars /\ WF_vars(ConvergeFrame)


(***************************************************************************)
(* Properties of the morph                                                 *)
(***************************************************************************)
\* Every component of pos is within epsilon (0.001) of tgt.
Converged(pos, tgt) ==
    \A i \in 1..Len(pos) : ~(Abs(tgt[i] - pos[i]) * 1000 > Scale)

RECURSIVE SumAbsDiffTo(_, _, _)
SumAbsDiffTo(pos, tgt, n) ==
    IF n = 0 THEN 0
    ELSE Abs(tgt[n] - pos[n]) + SumAbsDiffTo(pos, tgt, n - 1)

\* The sum of |target[i] - current[i]| over the components.
SumAbsDiff(pos, tgt) == SumAbsDiffTo(pos, tgt, Len(pos))

\* C1: once the first commit has loaded the buffers, current and target have
\* the same length, 3 * PARTICLE_COUNT, in every state of the session.
C1_BufferLengths ==
    positions # Null =>
        /\ Len(positions) = 3 * PARTICLE_COUNT
        /\ Len(targetPositions) = 3 * PARTICLE_COUNT
        /\ Len(positions) = Len(targetPositions)

\* A session with a shape change, a theme change, a zoom change and frames.
C1_Witness ==
    /\ positions # Null
    /\ shapeChanges >= 1
    /\ frames >= 1
    /\ theme # THEMES[1]
    /\ zoom # 50

\* C2: in one frame, a component whose distance to its target exceeds 0.001
\* moves by 0.05 of target[i] - current[i] (to half a grid unit, the
\* rounding of the arithmetic), and a component within 0.001 keeps its value:
\* it is not set to the target.
C2_LerpStep ==
    [][ \A i \in 1..Len(positions) :
          LET diff == targetPositions[i] - positions[i]
              step == positions'[i] - positions[i]
          IN  IF Abs(diff) * 1000 > Scale
              THEN Abs(20 * step - diff) <= 10
              ELSE step = 0 ]_vars

\* After a frame that moved something, a component is still off its target by
\* less than any move would leave: no frame has moved it or set it.
C2_Witness ==
    /\ needsUpdate = TRUE
    /\ \E j \in 1..Len(positions) :
          /\ positions[j] # targetPositions[j]
          /\ Abs(targetPositions[j] - positions[j]) <= 30

\* C3: with the target fixed, no frame increases the sum of the distances
\* |target[i] - current[i]|, every frame before convergence decreases it,
\* and from some frame on every component is within 0.001 of its target.
C3_Convergence ==
    /\ [][ /\ SumAbsDiff(positions', targetPositions')
                <= SumAbsDiff(positions, targetPositions)
           /\ ~Converged(positions, targetPositions) =>
                SumAbsDiff(positions', targetPositions')
                    < SumAbsDiff(positions, targetPositions) ]_vars
    /\ <>[]Converged(positions, targetPositions)

\* The frame that reached convergence: it moved a component, and all are now
\* within 0.001 of the target, not all on it.
C3_Witness ==
    /\ needsUpdate = TRUE
    /\ Converged(positions, targetPositions)
    /\ positions # targetPositions

\* C4, as stated: when the target is replaced before convergence, the next
\* frame moves each component by at most 0.05 of its distance to the target
\* that was replaced.
C4_BoundedByOldTarget ==
    [][ (frames' = frames + 1 /\ oldTarget # Null
            /\ ~Converged(positions, oldTarget)) =>
          \A i \in 1..Len(positions) :
             20 * Abs(positions'[i] - positions[i])
                <= Abs(oldTarget[i] - positions[i]) + 10 ]_vars

\* C4, amended: when the target is replaced before convergence, the next
\* frame moves each component by at most 0.05 of its distance to the new
\* target (to half a grid unit).
C4_BoundedByNewTarget ==
    [][ (frames' = frames + 1 /\ oldTarget # Null
            /\ ~Converged(positions, oldTarget)) =>
          \A i \in 1..Len(positions) :
             20 * Abs(positions'[i] - positions[i])
                <= Abs(targetPositions[i] - positions[i]) + 10 ]_vars

\* The first frame after a replacement has run, and moved something.
C4_Witness ==
    /\ retargetTick = TRUE
    /\ needsUpdate = TRUE

\* C5: a shape change leaves current as it is and makes target a buffer
\* generated for the new shape; a frame leaves target as it is.
C5_TargetReplaced ==
    [][ /\ shapeChanges' = shapeChanges + 1 =>
              /\ positions' = positions
              /\ \E r \in Streams : targetPositions' = Buffers[currentShape', r]
        /\ frames' = frames + 1 => targetPositions' = targetPositions ]_vars

\* A replacement has arrived after the buffers were loaded and frames had
\* run, and no frame has followed it yet.
C5_Witness ==
    /\ oldTarget # Null
    /\ targetPositions # oldTarget
    /\ frames >= 1
    /\ positions # Null

\* C6: a frame flags the position attribute exactly when it changed a
\* component, and not at all once every component is within 0.001.
C6_NeedsUpdate ==
    [][ /\ needsUpdate' <=> (positions' # positions)
        /\ Converged(positions, targetPositions) => needsUpdate' = FALSE ]_vars

\* Frames moved the points, and the last frame changed nothing and raised no
\* flag.
C6_Witness ==
    /\ needsUpdate = FALSE
    /\ positions # targetPositions
    /\ \A a \in shapeKeys, r \in Streams : positions # Buffers[a, r]

(***************************************************************************)
(* Properties of generateParticles                                         *)
(***************************************************************************)
\* The shapes the claims call closed-form.
ClosedFormShapes ==
    { ShapeType.Sphere, ShapeType.Mobius, ShapeType.Klein, ShapeType.Trefoil,
      ShapeType.Clifford, ShapeType.Lissajous }

\* Those of them whose branch draws no random number.
DrawFreeShapes ==
    { ShapeType.Sphere, ShapeType.Klein, ShapeType.Clifford, ShapeType.Lissajous }

\* C7: for every shape, known or not, and every count, generateParticles
\* returns 3 * count numbers, all finite, and has stored every slot.
C7_GeneratedBuffer ==
    result # Null =>
        /\ Len(result) = 3 * call.count
        /\ \A k \in 1..Len(result) : result[k] # NaN
        /\ loop.stored = 1..(3 * call.count)

\* A call for several points of the accretion disk has returned.
C7_Witness ==
    /\ result # Null
    /\ call.shape = ShapeType.BlackHole
    /\ call.count >= 2

C9_DefaultFill ==
    (result # Null /\ call.shape \notin shapeKeys) =>
        /\ Len(result) = 3 * call.count
        /\ \A k \in 1..Len(result) :
              /\ result[k] >= FromInt(-10)
              /\ result[k] <= FromInt(10)
              /\ result[k] =
                    Float32(random(FromInt(-10), FromInt(10),
                                   MathRandom(call.rnd, k - 1)))

\* A call for an unknown shape has returned, with a component at the lower
\* end of the range and one above 9.
C9_Witness ==
    /\ result # Null
    /\ call.shape = UnknownShape
    /\ \E k \in 1..Len(result) : result[k] = FromInt(-10)
    /\ \E k \in 1..Len(result) : result[k] > FromInt(9)

\* C10: generateParticles has been called twice by the first commit and once
\* by each change of currentShape, and by nothing else: no frame, no theme or
\* zoom change, no selection of the shape already shown.
C10_GeneratorCalls ==
    genCalls = (IF positions = Null THEN 0 ELSE 2) + shapeChanges

\* A session with the first commit, one shape change, a theme change and
\* frames: three calls.
C10_Witness ==
    /\ genCalls = 3
    /\ frames >= 2
    /\ theme # THEMES[1]

\* The point fixed-step integration gives for index i: the state of the
\* Lorenz system 50 + i mod 2000 steps after (1, 1, 1), lowered by 25.
LorenzAt(i) ==
    LET s == LorenzRun([x |-> Scale, y |-> Scale, z |-> Scale], 50 + (i % 2000))
    IN  << Float32(s.x), Float32(s.y), Float32(s.z - FromInt(25)) >>

\* The same for the Rossler system: 100 + i mod 3000 steps after (1, 1, 1),
\* lowered by 10.
RosslerAt(i) ==
    LET s == RosslerRun([x |-> Scale, y |-> Scale, z |-> Scale], 100 + (i % 3000))
    IN  << Float32(s.x), Float32(s.y), Float32(s.z - FromInt(10)) >>

\* Point i of a returned buffer.
PointAt(buf, i) == << buf[3 * i + 1], buf[3 * i + 2], buf[3 * i + 3] >>

\* C11, as stated: for the Lorenz and Rossler shapes, every point i of the
\* buffer is the state the integration from the fixed seed reaches after a
\* number of steps that depends on i only (Lorenz 50 + i mod 2000, Rossler
\* 100 + i mod 3000), with the centering offset.
C11_PerIndexIntegration ==
    result # Null =>
        /\ call.shape = ShapeType.Lorenz =>
              \A i \in 0..(call.count - 1) : PointAt(result, i) = LorenzAt(i)
        /\ call.shape = ShapeType.Rossler =>
              \A i \in 0..(call.count - 1) : PointAt(result, i) = RosslerAt(i)

\* C12: a theme change, with the remount of the points element it causes,
\* leaves every component of current and of target as it was.
C12_ThemeKeepsPositions ==
    [][ theme' # theme =>
          /\ positions' = positions
          /\ targetPositions' = targetPositions ]_vars

\* The theme is no longer the first one, and the morph is under way: the
\* last frame moved a component and current is not on target.
C12_Witness ==
    /\ theme # THEMES[1]
    /\ needsUpdate = TRUE
    /\ positions # targetPositions
    /\ frames >= 1

\* C13, as stated: after the first commit and before any shape change,
\* target equals current component for component, and no frame moves a
\* coordinate.
C13_TargetIsCurrentAtLoad ==
    (positions # Null /\ shapeChanges = 0) =>
        /\ targetPositions = positions
        /\ needsUpdate = FALSE

\* The start position of Sierpinski point i: the first three of its eight
\* draws, each scaled to [-10, 10].
ChaosStart(rnd, i) ==
    << random(FromInt(-10), FromInt(10), MathRandom(rnd, 8 * i)),
       random(FromInt(-10), FromInt(10), MathRandom(rnd, 8 * i + 1)),
       random(FromInt(-10), FromInt(10), MathRandom(rnd, 8 * i + 2)) >>

\* The vertex chosen at step s (1..5) of point i, as a triple.
ChaosCorner(rnd, i, s) ==
    LET v == corners[CornerIndex(MathRandom(rnd, 8 * i + 2 + s)) + 1]
    IN  << v.x, v.y, v.z >>

\* C14: for the Sierpinski shape every point takes three draws for a start
\* position p0 in [-10, 10]^3 and five draws for five vertices c1..c5, each
\* one of the four fixed ones, and is moved halfway toward each in turn.  So
\* every coordinate lies in [-10, 10], and the point p is
\* q + (p0 - q) / 32 for the point q = (c1 + 2 c2 + 4 c3 + 8 c4 + 16 c5) / 31
\* of the tetrahedron: 32 p = p0 + c1 + 2 c2 + 4 c3 + 8 c4 + 16 c5, to the
\* rounding of five halvings.
C14_ChaosGame ==
    (result # Null /\ call.shape = ShapeType.Sierpinski) =>
        /\ loop.c = 8 * call.count
        /\ \A k \in 1..Len(result) :
              result[k] >= FromInt(-10) /\ result[k] <= FromInt(10)
        /\ \A i \in 0..(call.count - 1) : \A a \in 1..3 :
              Abs(32 * PointAt(result, i)[a]
                    - ChaosStart(call.rnd, i)[a]
                    - ChaosCorner(call.rnd, i, 1)[a]
                    - 2 * ChaosCorner(call.rnd, i, 2)[a]
                    - 4 * ChaosCorner(call.rnd, i, 3)[a]
                    - 8 * ChaosCorner(call.rnd, i, 4)[a]
                    - 16 * ChaosCorner(call.rnd, i, 5)[a]) <= 32

\* A call for the largest count of Sierpinski points has returned, with
\* points that differ and a coordinate more than 7 from the centre.
C14_Witness ==
    /\ result # Null
    /\ call.shape = ShapeType.Sierpinski
    /\ call.count = MaxCount
    /\ PointAt(result, 0) # PointAt(result, 1)
    /\ \E k \in 1..Len(result) : Abs(result[k]) > FromInt(7)

\* C15: with the target fixed, a frame leaves the sign of
\* target[i] - current[i] as it was and does not increase its absolute
\* value, for every component: current[i] never crosses target[i].  A
\* component within 0.001 of its target is within 0.001 after the frame.
C15_NoOvershoot ==
    [][ \A i \in 1..Len(positions) :
          LET before == targetPositions[i] - positions[i]
              after  == targetPositions'[i] - positions'[i]
          IN  /\ Sgn(after) = Sgn(before)
              /\ Abs(after) <= Abs(before)
              /\ ~(Abs(before) * 1000 > Scale) => ~(Abs(after) * 1000 > Scale) ]_vars

\* The morph is under way after a frame that moved something: a component is
\* below its target, another above, and one is already within 0.001 of its
\* target without being on it.
C15_Witness ==
    /\ needsUpdate = TRUE
    /\ ~Converged(positions, targetPositions)
    /\ \E i \in 1..Len(positions) : targetPositions[i] > positions[i]
    /\ \E j \in 1..Len(positions) : targetPositions[j] < positions[j]
    /\ \E k \in 1..Len(positions) :
          /\ targetPositions[k] # positions[k]
          /\ ~(Abs(targetPositions[k] - positions[k]) * 1000 > Scale)

====
